---- MODULE Spec2Model ----
(***************************************************************************)
(* The editable table core of mantra.py: DataFrameModel (the Table), the   *)
(* four QUndoCommand classes (the Commands), the QUndoStack owned by       *)
(* CSVMatcherApp (the History) and the foreground handlers that drive      *)
(* them: cell edit, delete, paste, pipeline delivery, undo, redo, load.    *)
(*                                                                         *)
(* A Python string is a sequence of tokens: each token is one whitespace   *)
(* character (" ", "\t", "\n") or one opaque non-whitespace chunk.         *)
(* A cell reference (QModelIndex) is a pair <<row, column>>, zero-based.   *)
(***************************************************************************)
EXTENDS Integers, Sequences, FiniteSets, TLC

VARIABLES
    df,            \* DataFrameModel._df: [nrows, ncols, cells]
    original_order,\* DataFrameModel._original_order
    command_list,  \* QUndoStack: the retained Commands, oldest first
    index,         \* QUndoStack: number of Commands currently applied
    ignore_undo,   \* DataFrameModel.ignore_undo
    emitted,       \* dataChanged events emitted by the last handler
    df_source,     \* CSVMatcherApp.df_source: "None" or the name of the file
    op,            \* history variable: the last handler and its inputs
    lastPush,      \* history variable: the Table just before the last push
    rt,            \* history variable: progress of an undo^N redo^N round
    pushes,        \* history variable: Commands pushed so far
    loads,         \* history variable: files opened so far
    undoRun,       \* history variable: consecutive undo calls just made
    workers,       \* the ImageProcessor runs started, each in its QThread
    queue,         \* main thread's event queue: signals posted by the workers
    fg,            \* the foreground handler now running a Command, if any
    main_progress_bar,  \* CSVMatcherApp.main_progress_bar.value()
    interruption_requested, \* QThread.isInterruptionRequested() of the runs
    aborted,       \* the process was ended by qFatal
    clipboard,     \* QApplication.clipboard().text() as the program left it
    seen           \* history variable: per run, the cell of the last event delivered

\* The variables of the image pipeline.
pipe == <<workers, queue, fg, main_progress_bar, interruption_requested,
          aborted, seen>>

vars == <<df, original_order, command_list, index, ignore_undo, emitted,
          df_source, op, lastPush, rt, pushes, loads, undoRun,
          workers, queue, fg, main_progress_bar, interruption_requested,
          aborted, clipboard, seen>>

(***************************************************************************)
(* Bounds and program constants                                            *)
(***************************************************************************)
\* Spec: Commands pushed per behaviour.
MaxPushes == 2
\* SpecEdit: Commands pushed per behaviour.
MaxEdits == 2
\* Spec, SpecEdit, SpecReload: files opened per behaviour.
MaxLoads == 2
\* SpecReload: Commands pushed per behaviour.
MaxReloadPushes == 1
\* SpecRace: Commands pushed by the user per behaviour.
MaxFgPushes == 1
\* SpecPipeline, SpecRace: image runs started per behaviour.
MaxPipelineRuns == 1
\* SpecRuns: image runs started per behaviour.
MaxRuns == 2
\* SpecClipboard: Commands pushed per behaviour.
MaxClipPushes == 1
\* The last millisecond of a run's clock.
MaxClock == 1
\* SpecLimit: Commands pushed beyond the undo limit per behaviour.
ExtraPushes == 2
\* self.undo_stack.setUndoLimit(50)
UndoLimit == 50

(***************************************************************************)
(* Values                                                                  *)
(***************************************************************************)
\* pd.NA / NaN: the absent value (pd.isna is true of it, it is no str).
NA == <<"<NA>">>
\* '': the empty string.
EMPTY == <<>>
\* The literal "(필드 값 없음)" that setData stores as pd.NA.
PLACEHOLDER == <<"(field value none)">>
\* A number read by the CSV / Excel loaders (not a str); str() of it is SEVEN.
NUM == <<"#7">>
SEVEN == <<"7">>

isna(value) == value = NA
isinstance_str(value) == value # NA /\ value # NUM
str(value) == IF value = NUM THEN SEVEN ELSE value

Whitespace == {" ", "\t", "\n"}

(***************************************************************************)
(* Python str.strip() and str.split(sep)                                   *)
(***************************************************************************)
RECURSIVE lstrip(_)
lstrip(s) ==
    IF s # <<>> /\ Head(s) \in Whitespace THEN lstrip(Tail(s)) ELSE s

RECURSIVE rstrip(_)
rstrip(s) ==
    IF s # <<>> /\ s[Len(s)] \in Whitespace
    THEN rstrip(SubSeq(s, 1, Len(s) - 1)) ELSE s

strip(s) == rstrip(lstrip(s))

\* s.split(sep): always at least one piece; '' splits to [''].
RECURSIVE split_from(_, _, _, _)
split_from(s, sep, i, cur) ==
    IF i > Len(s) THEN <<cur>>
    ELSE IF s[i] = sep THEN <<cur>> \o split_from(s, sep, i + 1, <<>>)
    ELSE split_from(s, sep, i + 1, Append(cur, s[i]))

split(s, sep) == split_from(s, sep, 1, <<>>)

(***************************************************************************)
(* The Table                                                               *)
(***************************************************************************)
Refs(nrows, ncols) == (0 .. nrows - 1) \X (0 .. ncols - 1)

\* The references of a Table in row-major order.
RowMajor(nrows, ncols) ==
    [k \in 1 .. nrows * ncols |-> <<(k - 1) \div ncols, (k - 1) % ncols>>]

rowCount(d) == d.nrows
columnCount(d) == d.ncols

\* iloc[row, column] is defined (no IndexError).
InBounds(d, ref) == ref \in Refs(rowCount(d), columnCount(d))

\* DataFrameModel.index(row, column).isValid()
index_isValid(d, ref) == InBounds(d, ref)

\* DataFrameModel.data(index, Qt.DisplayRole) for an index inside the Table.
data(d, ref) ==
    LET value == d.cells[ref]
    IN IF isna(value) THEN EMPTY ELSE str(value)

(***************************************************************************)
(* The object state the handlers work on, as one record:                   *)
(*   df, original_order, command_list, index, ignore_undo, emitted,        *)
(*   pushes (history: calls of QUndoStack.push so far),                    *)
(*   raised (an exception left the handler's call of setData).             *)
(***************************************************************************)
RECURSIVE setData(_, _, _)

\* for index, value in pairs: self.model.setData(index, value, Qt.EditRole)
\* (m1 and rest range over one-element sets, so that each intermediate state
\* is computed once.)
RECURSIVE setData_each(_, _)
setData_each(m, pairs) ==
    IF pairs = <<>> \/ m.raised THEN m
    ELSE CHOOSE result \in
             { setData_each(m1, rest) :
                 m1 \in { setData(m, pairs[1][1], pairs[1][2]) },
                 rest \in { Tail(pairs) } } : TRUE

(***************************************************************************)
(* Commands. One record shape for the four classes:                        *)
(*   EditCell:      index, old_value, new_value                            *)
(*   DeleteCells:   indexes (selected_indexes), old_values                 *)
(*   PasteCells:    paste_data, index (start_index), old_values            *)
(*   PasteMultiple: indexes, new_value (value), old_values                 *)
(* old_values is the dict in insertion order, as <<index, value>> pairs.   *)
(***************************************************************************)
EditCellCommand(ref, old_value, new_value) ==
    [kind |-> "EditCell", index |-> ref, old_value |-> old_value,
     new_value |-> new_value, indexes |-> <<>>, old_values |-> <<>>,
     paste_data |-> <<>>]

\* EditCellCommand.undo as it would be without the two ignore_undo lines.
EditCellCommand_undo_unguarded(m, cmd) ==
    setData(m, cmd.index, cmd.old_value)

EditCellCommand_undo(m, cmd) ==
    LET m1 == [m EXCEPT !.ignore_undo = TRUE]
        m2 == setData(m1, cmd.index, cmd.old_value)
    IN [m2 EXCEPT !.ignore_undo = FALSE]

EditCellCommand_redo(m, cmd) ==
    LET m1 == [m EXCEPT !.ignore_undo = TRUE]
        m2 == setData(m1, cmd.index, cmd.new_value)
    IN [m2 EXCEPT !.ignore_undo = FALSE]

DeleteCellsCommand(d, selected_indexes) ==
    [kind |-> "DeleteCells", index |-> <<0, 0>>, old_value |-> EMPTY,
     new_value |-> EMPTY, indexes |-> selected_indexes,
     old_values |-> [k \in 1 .. Len(selected_indexes) |->
                        <<selected_indexes[k], data(d, selected_indexes[k])>>],
     paste_data |-> <<>>]

DeleteCellsCommand_undo(m, cmd) ==
    LET m1 == [m EXCEPT !.ignore_undo = TRUE]
        m2 == setData_each(m1, cmd.old_values)
    IN [m2 EXCEPT !.ignore_undo = FALSE]

DeleteCellsCommand_redo(m, cmd) ==
    LET m1 == [m EXCEPT !.ignore_undo = TRUE]
        m2 == setData_each(m1, [k \in 1 .. Len(cmd.indexes) |->
                                   <<cmd.indexes[k], EMPTY>>])
    IN [m2 EXCEPT !.ignore_undo = FALSE]

\* The <<index, value>> pairs of one clipboard row whose index is valid.
PasteRow(d, row, r, start_index) ==
    LET all == [c \in 1 .. Len(row) |->
                   << <<start_index[1] + r, start_index[2] + (c - 1)>>, row[c] >>]
        valid(p) == index_isValid(d, p[1])
    IN SelectSeq(all, valid)

\* for r, row in enumerate(paste_data): for c, value in enumerate(row):
\*     index = model.index(start.row() + r, start.column() + c); if index.isValid()
RECURSIVE PasteTargets(_, _, _, _)
PasteTargets(d, paste_data, r, start_index) ==
    IF r >= Len(paste_data) THEN <<>>
    ELSE PasteRow(d, paste_data[r + 1], r, start_index)
         \o PasteTargets(d, paste_data, r + 1, start_index)

PasteCellsCommand(d, paste_data, start_index) ==
    LET targets == PasteTargets(d, paste_data, 0, start_index)
    IN [kind |-> "PasteCells", index |-> start_index, old_value |-> EMPTY,
        new_value |-> EMPTY, indexes |-> <<>>,
        old_values |-> [k \in 1 .. Len(targets) |->
                           <<targets[k][1], data(d, targets[k][1])>>],
        paste_data |-> paste_data]

PasteCellsCommand_undo(m, cmd) ==
    LET m1 == [m EXCEPT !.ignore_undo = TRUE]
        m2 == setData_each(m1, cmd.old_values)
    IN [m2 EXCEPT !.ignore_undo = FALSE]

PasteCellsCommand_redo(m, cmd) ==
    LET m1 == [m EXCEPT !.ignore_undo = TRUE]
        m2 == setData_each(m1, PasteTargets(m1.df, cmd.paste_data, 0, cmd.index))
    IN [m2 EXCEPT !.ignore_undo = FALSE]

PasteMultipleCellsCommand(d, indexes, value) ==
    [kind |-> "PasteMultiple", index |-> <<0, 0>>, old_value |-> EMPTY,
     new_value |-> value, indexes |-> indexes,
     old_values |-> [k \in 1 .. Len(indexes) |->
                        <<indexes[k], data(d, indexes[k])>>],
     paste_data |-> <<>>]

PasteMultipleCellsCommand_undo(m, cmd) ==
    LET m1 == [m EXCEPT !.ignore_undo = TRUE]
        m2 == setData_each(m1, cmd.old_values)
    IN [m2 EXCEPT !.ignore_undo = FALSE]

PasteMultipleCellsCommand_redo(m, cmd) ==
    LET m1 == [m EXCEPT !.ignore_undo = TRUE]
        m2 == setData_each(m1, [k \in 1 .. Len(cmd.indexes) |->
                                   <<cmd.indexes[k], cmd.new_value>>])
    IN [m2 EXCEPT !.ignore_undo = FALSE]

\* Virtual dispatch of QUndoCommand.undo / QUndoCommand.redo.
Command_undo(m, cmd) ==
    CASE cmd.kind = "EditCell" -> EditCellCommand_undo(m, cmd)
      [] cmd.kind = "DeleteCells" -> DeleteCellsCommand_undo(m, cmd)
      [] cmd.kind = "PasteCells" -> PasteCellsCommand_undo(m, cmd)
      [] cmd.kind = "PasteMultiple" -> PasteMultipleCellsCommand_undo(m, cmd)

Command_redo(m, cmd) ==
    CASE cmd.kind = "EditCell" -> EditCellCommand_redo(m, cmd)
      [] cmd.kind = "DeleteCells" -> DeleteCellsCommand_redo(m, cmd)
      [] cmd.kind = "PasteCells" -> PasteCellsCommand_redo(m, cmd)
      [] cmd.kind = "PasteMultiple" -> PasteMultipleCellsCommand_redo(m, cmd)

(***************************************************************************)
(* The History: self.undo_stack = QUndoStack(self), setUndoLimit(50).      *)
(* push runs the Command's redo, drops the Commands after the pointer,     *)
(* appends, and drops the oldest Commands beyond the undo limit.           *)
(***************************************************************************)
\* A push that would keep the Commands after the pointer.
QUndoStack_push_keeping(m, cmd) ==
    CHOOSE result \in
        { [m1 EXCEPT !.command_list = Append(@, cmd),
                     !.index = @ + 1,
                     !.pushes = @ + 1] :
            m1 \in { Command_redo(m, cmd) } } : TRUE

\* A push on a stack that had no undo limit set.
QUndoStack_push_unlimited(m, cmd) ==
    CHOOSE result \in
        { LET list == Append(SubSeq(m1.command_list, 1, m1.index), cmd)
          IN [m1 EXCEPT !.command_list = list,
                        !.index = Len(list),
                        !.pushes = @ + 1] :
            m1 \in { Command_redo(m, cmd) } } : TRUE

QUndoStack_push(m, cmd) ==
    CHOOSE result \in
        { LET list == Append(SubSeq(m1.command_list, 1, m1.index), cmd)
              del_count == IF Len(list) > UndoLimit
                           THEN Len(list) - UndoLimit ELSE 0
          IN [m1 EXCEPT !.command_list = SubSeq(list, del_count + 1, Len(list)),
                        !.index = Len(list) - del_count,
                        !.pushes = @ + 1] :
            m1 \in { Command_redo(m, cmd) } } : TRUE

QUndoStack_undo(m) ==
    IF m.index = 0 THEN m
    ELSE LET idx == m.index - 1
             m1 == Command_undo(m, m.command_list[idx + 1])
         IN [m1 EXCEPT !.index = idx]

QUndoStack_redo(m) ==
    IF m.index = Len(m.command_list) THEN m
    ELSE LET m1 == Command_redo(m, m.command_list[m.index + 1])
         IN [m1 EXCEPT !.index = @ + 1]

(***************************************************************************)
(* DataFrameModel.setData(index, value, Qt.EditRole).  Every index the     *)
(* model is given has row >= 0 and column >= 0 (isValid()); an index       *)
(* outside the current Table makes iloc raise IndexError.                  *)
(***************************************************************************)
\* The ignore_undo branch as it would be without its try/except: the
\* IndexError leaves setData.
setData_ignore_raising(m, ref, value) ==
    IF ~InBounds(m.df, ref) THEN [m EXCEPT !.raised = TRUE]
    ELSE LET stored == IF isinstance_str(value)
                          /\ (value = EMPTY \/ value = PLACEHOLDER)
                       THEN NA ELSE value
         IN [m EXCEPT !.df.cells[ref] = stored,
                      !.emitted = Append(@, ref)]

\* The ignore_undo branch as it would be with .loc in place of .iloc: a
\* write outside the Table enlarges it, filling the new cells with NaN.
setData_ignore_enlarging(m, ref, value) ==
    LET stored == IF isinstance_str(value)
                     /\ (value = EMPTY \/ value = PLACEHOLDER)
                  THEN NA ELSE value
        nrows == IF ref[1] + 1 > m.df.nrows THEN ref[1] + 1 ELSE m.df.nrows
        ncols == IF ref[2] + 1 > m.df.ncols THEN ref[2] + 1 ELSE m.df.ncols
    IN [m EXCEPT !.df = [nrows |-> nrows, ncols |-> ncols,
                         columns |-> [c \in 1 .. ncols |->
                                        IF c <= m.df.ncols
                                        THEN m.df.columns[c] ELSE "new"],
                         cells |-> [r \in Refs(nrows, ncols) |->
                                      IF r = ref THEN stored
                                      ELSE IF InBounds(m.df, r)
                                           THEN m.df.cells[r] ELSE NA]],
                 !.emitted = Append(@, ref)]

\* The ignore_undo branch as it would be without dataChanged.emit.
setData_ignore_silent(m, ref, value) ==
    IF ~InBounds(m.df, ref) THEN m
    ELSE LET stored == IF isinstance_str(value)
                          /\ (value = EMPTY \/ value = PLACEHOLDER)
                       THEN NA ELSE value
         IN [m EXCEPT !.df.cells[ref] = stored]

\* The branch taken while ignore_undo is set (Undo/Redo in progress).
setData_ignore(m, ref, value) ==
    IF ~InBounds(m.df, ref) THEN m   \* IndexError, caught: return False
    ELSE LET stored == IF isinstance_str(value)
                          /\ (value = EMPTY \/ value = PLACEHOLDER)
                       THEN NA ELSE value
         IN [m EXCEPT !.df.cells[ref] = stored,
                      !.emitted = Append(@, ref)]

\* The branch of a direct edit: compare, then push an EditCellCommand.
\* self.undo_stack is not None from CSVMatcherApp.__init__ on.
setData_direct(m, ref, value) ==
    IF ~InBounds(m.df, ref) THEN [m EXCEPT !.raised = TRUE]  \* IndexError
    ELSE LET old_value == m.df.cells[ref]
             new_value == IF isna(value) THEN NA
                          ELSE IF isinstance_str(value)
                               THEN (IF value # EMPTY THEN value ELSE NA)
                               ELSE value
             values_differ ==
                 IF isna(old_value) /\ isna(new_value) THEN FALSE
                 ELSE IF isna(old_value) \/ isna(new_value) THEN TRUE
                 ELSE old_value # new_value
         IN IF values_differ
            THEN QUndoStack_push(m, EditCellCommand(ref, old_value, new_value))
            ELSE m

setData(m, ref, value) ==
    IF m.ignore_undo THEN setData_ignore(m, ref, value)
    ELSE setData_direct(m, ref, value)

(***************************************************************************)
(* DataFrameModel.set_dataframe / sort_original_order                      *)
(***************************************************************************)
\* self._df = df.copy().reset_index(drop=True); _original_order = its index.
set_dataframe(m, table) ==
    [m EXCEPT !.df = table,
              !.original_order = [i \in 1 .. table.nrows |-> i - 1]]

\* self._df = self._df.loc[self._original_order].reset_index(drop=True)
sort_original_order(m) ==
    [m EXCEPT !.df.cells =
        [ref \in Refs(m.df.nrows, m.df.ncols) |->
            m.df.cells[<<m.original_order[ref[1] + 1], ref[2]>>]]]

(***************************************************************************)
(* The foreground handlers                                                 *)
(***************************************************************************)
\* TextEditDelegate.setModelData: model.setData(index, editor.toPlainText())
setModelData(m, ref, text) == setData(m, ref, text)

\* A slot that would write the text around the QUndoStack.
handle_update_cell_around(m, ref, new_data) == setData_ignore(m, ref, new_data)

\* CSVMatcherApp.handle_update_cell(index, new_data)
handle_update_cell(m, ref, new_data) == setData(m, ref, new_data)

\* CSVMatcherApp.clear_selected_cells (self.undo_stack is not None)
clear_selected_cells(m, selected_indexes) ==
    QUndoStack_push(m, DeleteCellsCommand(m.df, selected_indexes))

\* CSVMatcherApp.delete_selected_cells: a warning when nothing is selected.
delete_selected_cells(m, selected_indexes) ==
    IF selected_indexes # <<>> THEN clear_selected_cells(m, selected_indexes)
    ELSE m

\* sorted(keys) of a dict whose keys are row or column numbers
RECURSIVE sorted(_)
sorted(keys) ==
    IF keys = {} THEN <<>>
    ELSE LET least == CHOOSE x \in keys : \A y \in keys : x <= y
         IN <<least>> \o sorted(keys \ {least})

\* sep.join(parts)
RECURSIVE join(_, _)
join(sep, parts) ==
    IF parts = <<>> THEN <<>>
    ELSE IF Len(parts) = 1 THEN parts[1]
    ELSE parts[1] \o <<sep>> \o join(sep, Tail(parts))

\* CSVMatcherApp.copy_selected_cells: the text set on the clipboard for a
\* selection that is not empty: the cells' texts, tabs within a row, newlines
\* between rows, rows and columns in ascending order.
copy_selected_cells(d, selected_indexes) ==
    LET sel == {selected_indexes[k] : k \in 1 .. Len(selected_indexes)}
        rows == sorted({ref[1] : ref \in sel})
        cols(r) == sorted({ref[2] : ref \in {x \in sel : x[1] = r}})
        row_data(r) == [k \in 1 .. Len(cols(r)) |-> data(d, <<r, cols(r)[k]>>)]
    IN join("\n", [k \in 1 .. Len(rows) |-> join("\t", row_data(rows[k]))])

\* rows = clipboard_text.strip().split('\n')
\* data_matrix = [row.split('\t') for row in rows if row.strip()]
data_matrix_of(clipboard_text) ==
    LET rows == split(strip(clipboard_text), "\n")
        nonblank(row) == strip(row) # <<>>
        kept == SelectSeq(rows, nonblank)
    IN [k \in 1 .. Len(kept) |-> split(kept[k], "\t")]

\* CSVMatcherApp.paste_clipboard_data(selected_indexes)
paste_clipboard_data(m, selected_indexes, clipboard_text) ==
    IF clipboard_text = <<>> THEN m              \* "no data on the clipboard"
    ELSE LET data_matrix == data_matrix_of(clipboard_text)
         IN IF data_matrix = <<>> THEN m         \* "data to paste is not valid"
            ELSE IF Len(data_matrix) = 1 /\ Len(data_matrix[1]) = 1
            THEN QUndoStack_push(m,
                    PasteMultipleCellsCommand(m.df, selected_indexes,
                                              data_matrix[1][1]))
            ELSE IF selected_indexes = <<>> THEN m   \* IndexError, caught
            ELSE QUndoStack_push(m,
                    PasteCellsCommand(m.df, data_matrix, selected_indexes[1]))

\* CSVMatcherApp.display_data after open_file set self.df_source
display_data(m, table) == set_dataframe(m, table)

\* undo_action / redo_action: the Ctrl+Z and Ctrl+Y shortcuts
undo_triggered(m) == QUndoStack_undo(m)

\* The redo shortcut as it would be if connected to undo_stack.undo.
redo_connected_to_undo(m) == QUndoStack_undo(m)

redo_triggered(m) == QUndoStack_redo(m)

(***************************************************************************)
(* ImageProcessor: the worker that CSVMatcherApp.process_images moves to a *)
(* QThread.  Its signals are connected to slots of the main window: each   *)
(* emit posts an event to the main thread's queue.  A text is a sequence   *)
(* of characters and elements; "<img u>" stands for an img element whose   *)
(* src is a remote address with the file name u.  The user answered the    *)
(* dialogs with the new path p and without download.                       *)
(***************************************************************************)
\* The img elements of the files.  Two have a remote src with a scheme and
\* a file name (u, v); "<img p/u>" and "<img p/v>" are the same after the
\* rewrite to the new path p, an absolute URL.  One has an embedded image
\* (src 'data:image/png;base64,...'), and Base64Srcs are what it is
\* rewritten to, by timestamp ('p/img_{row}_{col}_{timestamp}.png' in the
\* cell (row, col) that holds it).  One has a data: src without a comma.
RemoteElements == {"<img u>", "<img v>"}
RewrittenElements == {"<img p/u>", "<img p/v>"}
Base64Element == "<img data:png>"
MalformedElement == "<img data:image>"
Base64Srcs ==
    << "<img p/img_t0.png>", "<img p/img_t1.png>", "<img p/img_t2.png>",
       "<img p/img_t3.png>" >>

ImgElements ==
    RemoteElements \cup RewrittenElements
    \cup {Base64Element, MalformedElement}
    \cup {Base64Srcs[k] : k \in 1 .. Len(Base64Srcs)}

\* soup.find_all('img')
find_all_img(text) ==
    LET is_img(t) == t \in ImgElements
    IN SelectSeq(text, is_img)

\* img['src'] = os.path.join(self.new_path, os.path.basename(urlparse(src).path))
rewrite_src(t) ==
    CASE t = "<img u>" -> "<img p/u>"
      [] t = "<img v>" -> "<img p/v>"
      [] OTHER -> t

\* A posted signal: the run and the cell number it came from, the signal,
\* and its arguments (index and new_data of update_cell, value of progress).
Event(r, i, kind, ref, new_data, value) ==
    [run |-> r, i |-> i, kind |-> kind, index |-> ref, new_data |-> new_data,
     value |-> value]

\* An error path that would report nothing.
process_img_silent(t, ref, download_images, o) ==
    [src |-> t, signals |-> <<>>, file_name |-> <<>>]

\* One pass of "for img in imgs" for the element t of the cell ref: the src
\* the element has afterwards, the signals emitted in order, and the file
\* name built for an embedded image.  o is what happened around the
\* element: raised, whether the call that can fail did (b64decode, open and
\* write for an embedded image, urlretrieve for a remote one when
\* download_images is set); timestamp, the value of int(time.time() * 1000)
\* when the element was reached, counted from the start of the run.
process_img(t, ref, download_images, o) ==
    CASE t = MalformedElement ->
            \* header, encoded = src.split(',', 1) raises ValueError
            [src |-> t, signals |-> <<"log", "error">>, file_name |-> <<>>]
      [] t = Base64Element ->
            IF o.raised
            THEN [src |-> t, signals |-> <<"log", "error">>,
                  file_name |-> << <<ref[1], ref[2], o.timestamp>> >>]
            ELSE [src |-> Base64Srcs[o.timestamp + 1],
                  signals |-> <<"log", "log">>,
                  file_name |-> << <<ref[1], ref[2], o.timestamp>> >>]
      [] OTHER ->
            \* a src with a scheme and a file name
            IF download_images /\ o.raised
            THEN [src |-> t, signals |-> <<"log", "error">>,
                  file_name |-> <<>>]
            ELSE [src |-> rewrite_src(t),
                  signals |-> IF download_images THEN <<"log", "log">>
                              ELSE <<"log">>,
                  file_name |-> <<>>]

RECURSIVE concat(_)
concat(seqs) ==
    IF seqs = <<>> THEN <<>> ELSE Head(seqs) \o concat(Tail(seqs))

\* A loop body that would treat a cell without img elements like any other.
run_cell_every(r, i, total, ref, current_data, download_images, env) ==
    [events |-> << Event(r, i, "update_cell", ref, current_data, 0),
                   Event(r, i, "progress", ref, <<>>, (i * 100) \div total) >>,
     file_names |-> <<>>]

\* One pass of the for loop of ImageProcessor.run: the signals in the order
\* emitted (none for a cell that is empty or holds no img element) and the
\* file names built.  env[k] is the outcome around the element current_data[k].
run_cell(r, i, total, ref, current_data, download_images, env) ==
    IF current_data = EMPTY THEN [events |-> <<>>, file_names |-> <<>>]
    ELSE IF find_all_img(current_data) = <<>>
    THEN [events |-> <<>>, file_names |-> <<>>]
    ELSE LET imgs == [k \in 1 .. Len(current_data) |->
                         IF current_data[k] \in ImgElements
                         THEN process_img(current_data[k], ref,
                                          download_images, env[k])
                         ELSE [src |-> current_data[k], signals |-> <<>>,
                               file_name |-> <<>>]]
             signals == concat([k \in 1 .. Len(imgs) |-> imgs[k].signals])
             \* str(soup)
             new_data == [k \in 1 .. Len(imgs) |-> imgs[k].src]
         IN [events |->
                [k \in 1 .. Len(signals) |->
                    Event(r, i, signals[k], ref, <<>>, 0)]
                \o << Event(r, i, "update_cell", ref, new_data, 0),
                      Event(r, i, "progress", ref, <<>>,
                            (i * 100) \div total) >>,
             file_names |-> concat([k \in 1 .. Len(imgs) |-> imgs[k].file_name])]

\* A run that would end without saying so.
run_end_silent(r, i, total) == <<>>

\* The pass of the loop over a cell that the Table no longer has:
\* model.data raises IndexError, the except of the loop body reports it.
run_cell_except(r, i, ref) ==
    [events |-> << Event(r, i, "log", ref, <<>>, 0),
                   Event(r, i, "error", ref, <<>>, 0) >>,
     file_names |-> <<>>]

\* The signals of run once the loop is over, or at once when the list is
\* empty: progress(100) for an empty list, then finished.
run_end(r, i, total) ==
    (IF total = 0
     THEN << Event(r, i, "progress", <<0, 0>>, <<>>, 100) >> ELSE <<>>)
    \o << Event(r, i, "finished", <<0, 0>>, <<>>, 0) >>

\* A queue that would hand out the newest event first.
postEvent_front(q, ev) == <<ev>> \o q

\* QCoreApplication.postEvent: a queued connection's call waits in line.
postEvent(q, ev) == Append(q, ev)

\* update_cell as it would be with a direct connection: the slot runs in
\* the worker's thread, inside emit.
update_cell_emit_direct(s, ev) ==
    [s EXCEPT !.m = handle_update_cell(@, ev.index, ev.new_data)]

\* self.update_cell.emit(index, new_data): the worker lives in the QThread,
\* the slot's object in the main thread, so the call is queued.
update_cell_emit(s, ev) == [s EXCEPT !.queue = postEvent(@, ev)]

\* The emits of one pass, in order.  s is the handlers' state m and the queue.
RECURSIVE emit_each(_, _)
emit_each(s, events) ==
    IF events = <<>> THEN s
    ELSE CHOOSE result \in
             { emit_each(s1, rest) :
                 s1 \in { IF events[1].kind = "update_cell"
                          THEN update_cell_emit(s, events[1])
                          ELSE [s EXCEPT !.queue = postEvent(@, events[1])] },
                 rest \in { Tail(events) } } : TRUE

\* ImageProcessor(selected_indexes, ...): i cells of the list are done.
\* The outcomes one pass of the loop can meet in a cell that reads
\* current_data: a call can raise where there is one to make, and the clock
\* never goes back.
Envs(current_data, download_images, timestamp) ==
    LET n == Len(current_data)
        calls(t) == \/ t = Base64Element
                    \/ /\ download_images
                       /\ t \in ImgElements \ {Base64Element, MalformedElement}
    IN { env \in [1 .. n -> [raised : BOOLEAN,
                             timestamp : timestamp .. MaxClock]] :
           \A k \in 1 .. n :
              LET before == IF k = 1 THEN timestamp ELSE env[k - 1].timestamp
              IN /\ env[k].raised => calls(current_data[k])
                 /\ env[k].timestamp >= before
                 /\ current_data[k] # Base64Element
                       => env[k].timestamp = before }

\* timestamp: the clock as the run last read it; file_names: the names built
\* for embedded images; raised: how many fetches and file writes failed;
\* sent: every signal the run has emitted.
ImageProcessor(selected_indexes, download_images) ==
    [selected_indexes |-> selected_indexes, i |-> 0, status |-> "running",
     download_images |-> download_images, timestamp |-> 0,
     file_names |-> <<>>, raised |-> 0, sent |-> <<>>]

(***************************************************************************)
(* Inputs                                                                  *)
(***************************************************************************)
Cells2x2(v00, v01, v10, v11) ==
    [ref \in Refs(2, 2) |->
        CASE ref = <<0, 0>> -> v00 [] ref = <<0, 1>> -> v01
          [] ref = <<1, 0>> -> v10 [] ref = <<1, 1>> -> v11]

\* What parse_custom_html_xls returns: strings only, '' for an empty cell.
HtmlTable ==
    [nrows |-> 2, ncols |-> 2, columns |-> <<"A", "B">>,
     cells |-> Cells2x2(<<"a">>, EMPTY, PLACEHOLDER, <<"b">>)]

\* What load_csv returns: NaN for an empty field, numbers as numbers.
\* This file has one row only.
CsvTable ==
    [nrows |-> 1, ncols |-> 2, columns |-> <<"C", "D">>,
     cells |-> [ref \in Refs(1, 2) |-> IF ref = <<0, 0>> THEN NUM ELSE NA]]

\* A file with one row and one column.
SmallTable ==
    [nrows |-> 1, ncols |-> 1, columns |-> <<"A">>,
     cells |-> [ref \in Refs(1, 1) |-> <<"a">>]]

\* DataFrameModel(): the empty DataFrame the model is constructed with.
EmptyTable ==
    [nrows |-> 0, ncols |-> 0, columns |-> <<>>,
     cells |-> [ref \in Refs(0, 0) |-> NA]]

\* A file of one row whose cells hold markup: an img element with a remote
\* src, an empty cell, a second img element.
ImgTable ==
    [nrows |-> 1, ncols |-> 3, columns |-> <<"A", "B", "C">>,
     cells |-> [ref \in Refs(1, 3) |->
                  CASE ref = <<0, 0>> -> <<"<img u>">>
                    [] ref = <<0, 1>> -> EMPTY
                    [] ref = <<0, 2>> -> <<"<img v>">>]]

\* A file of two rows whose cells hold every kind of content a run meets:
\* a remote img, an img whose data: src has no comma, a second remote img;
\* two embedded images in one cell, text without markup, an empty cell.
RunTable ==
    [nrows |-> 2, ncols |-> 3, columns |-> <<"A", "B", "C">>,
     cells |-> [ref \in Refs(2, 3) |->
                  CASE ref = <<0, 0>> -> <<"<img u>">>
                    [] ref = <<0, 1>> -> <<MalformedElement>>
                    [] ref = <<0, 2>> -> <<"<img v>">>
                    [] ref = <<1, 0>> -> <<Base64Element, Base64Element>>
                    [] ref = <<1, 1>> -> <<"b">>
                    [] ref = <<1, 2>> -> EMPTY]]

Files == [html |-> HtmlTable, csv |-> CsvTable, small |-> SmallTable,
          img |-> ImgTable, run |-> RunTable]

\* editor.toPlainText()
EditTexts == {EMPTY, PLACEHOLDER, <<"b">>}
LimitTexts == {EMPTY, <<"b">>}
\* What the user types or pastes while an image run is going on.
PipelineTexts == {<<"b">>}

\* str(soup): the rewritten markup of a cell that held an image
UpdateTexts == {<<"<img>">>}

\* The indexes a pipeline run was started with: any cell of any loaded file.
UpdateRefs == {<<1, 1>>}

\* table_view.selectedIndexes(): the selection ranges in the order they were
\* made, each range row-major; no duplicates.  Nothing selected, the last
\* cell and then (Ctrl+click) the first, or the whole Table.
Selections(d) ==
    IF d.nrows = 0 THEN { <<>> }
    ELSE LET last == <<d.nrows - 1, d.ncols - 1>>
         IN { <<>>, RowMajor(d.nrows, d.ncols) }
            \cup (IF last # <<0, 0>> THEN { <<last, <<0, 0>>>> } ELSE { <<last>> })

\* table_view.selectedIndexes() of a rectangular selection made by dragging
\* from its top-left cell: the cells of rows r1..r2 and columns c1..c2.
Rect(r1, r2, c1, c2) ==
    LET w == c2 - c1 + 1
    IN [k \in 1 .. (r2 - r1 + 1) * w |-> <<r1 + ((k - 1) \div w), c1 + ((k - 1) % w)>>]

RectSelections(d) ==
    { Rect(r1, r2, c1, c2) :
        r1 \in 0 .. d.nrows - 1, r2 \in 0 .. d.nrows - 1,
        c1 \in 0 .. d.ncols - 1, c2 \in 0 .. d.ncols - 1 } \ { <<>> }

\* QApplication.clipboard().text()
\* Nothing, blank lines only, one value, the placeholder text, and a block
\* of two rows ("a", "", "b" and "b", "a") followed by a newline.
Clipboards ==
    { <<>>,
      <<" ", "\n">>,
      <<"b">>,
      PLACEHOLDER,
      <<"a", "\t", "\t", "b", "\n", "b", "\t", "a", "\n">> }

(***************************************************************************)
(* State, and the history variables kept beside it                         *)
(***************************************************************************)
M ==
    [df |-> df, original_order |-> original_order,
     command_list |-> command_list, index |-> index,
     ignore_undo |-> ignore_undo, emitted |-> <<>>,
     pushes |-> pushes, raised |-> FALSE]

Commit(m) ==
    /\ df' = m.df
    /\ original_order' = m.original_order
    /\ command_list' = m.command_list
    /\ index' = m.index
    /\ ignore_undo' = m.ignore_undo
    /\ emitted' = m.emitted
    /\ pushes' = m.pushes

\* The cells a Command writes.
CommandRefs(cmd) ==
    CASE cmd.kind = "EditCell" -> {cmd.index}
      [] cmd.kind = "PasteCells" ->
            {cmd.old_values[k][1] : k \in 1 .. Len(cmd.old_values)}
      [] OTHER -> {cmd.indexes[k] : k \in 1 .. Len(cmd.indexes)}

NoPush == [kind |-> "none", refs |-> {}, before |-> <<>>, idx |-> 0]

\* rt.phase: "none" (rounds are not followed), "off" (no round in sight),
\* "edits" (only edits since the load), "undo" (nUndo undos made since),
\* "redo" (nRedo redos made after them).  snap: the cells just before the
\* first undo.  touched: the cells the edits since the load changed.
RtNone == [phase |-> "none", snap |-> <<>>, nUndo |-> 0, nRedo |-> 0, touched |-> {}]
RtOff == [RtNone EXCEPT !.phase = "off"]

\* op: the handler that ran, how many Commands it pushed, and how many
\* Commands lay after the pointer when it pushed.
\* lastPush: the pushed Command's kind and cells, the Table's cells before the
\* handler ran and the pointer after it.
Record(name, refs, m) ==
    /\ op' = [name |-> name, pushed |-> m.pushes - pushes,
              discarded |-> IF m.pushes > pushes
                            THEN Len(command_list) - index ELSE 0]
    /\ lastPush' = IF name = "load" THEN NoPush
                   ELSE IF m.pushes > pushes
                   THEN [kind |-> m.command_list[Len(m.command_list)].kind,
                         refs |-> CommandRefs(m.command_list[Len(m.command_list)]),
                         before |-> df.cells, idx |-> m.index]
                   ELSE lastPush
    /\ loads' = IF name = "load" THEN loads + 1 ELSE loads
    /\ undoRun' = IF name = "undo" /\ pushes > UndoLimit
                  THEN (IF undoRun > UndoLimit THEN undoRun ELSE undoRun + 1)
                  ELSE 0
    /\ rt' = CASE rt.phase = "none" -> rt
               [] name = "load" ->
                    [RtOff EXCEPT !.phase = "edits"]
               [] name = "edit_cell" /\ rt.phase = "edits" ->
                    IF m.pushes > pushes
                    THEN [rt EXCEPT !.touched = @ \cup {refs[1]}] ELSE rt
               [] name = "undo" /\ rt.phase = "edits" /\ index > 0 ->
                    [rt EXCEPT !.phase = "undo", !.snap = df.cells, !.nUndo = 1]
               [] name = "undo" /\ rt.phase = "undo" /\ index > 0 ->
                    [rt EXCEPT !.nUndo = @ + 1]
               [] name = "redo" /\ rt.phase \in {"undo", "redo"}
                                /\ rt.nRedo < rt.nUndo ->
                    [rt EXCEPT !.phase = "redo", !.nRedo = @ + 1]
               [] OTHER -> RtOff

(***************************************************************************)
(* Actions: one per handler                                                *)
(***************************************************************************)
\* No handler is in the middle of a Command.
FgIdle ==
    [active |-> FALSE, name |-> "none", writes |-> <<>>,
     command_list |-> <<>>, index |-> 0, pushes |-> 0]

\* No run was started: no QThread, nothing posted, the bar at its initial 0.
PipeInit ==
    /\ workers = <<>>
    /\ queue = <<>>
    /\ fg = FgIdle
    /\ main_progress_bar = 0
    /\ interruption_requested = FALSE
    /\ aborted = FALSE
    /\ seen = <<>>

\* CSVMatcherApp.__init__: an empty model, an empty QUndoStack.
Init ==
    /\ df = EmptyTable
    /\ original_order = <<>>
    /\ command_list = <<>>
    /\ index = 0
    /\ ignore_undo = FALSE
    /\ emitted = <<>>
    /\ df_source = "None"
    /\ op = [name |-> "init", pushed |-> 0, discarded |-> 0]
    /\ lastPush = NoPush
    /\ rt = RtNone
    /\ pushes = 0
    /\ loads = 0
    /\ undoRun = 0
    /\ PipeInit
    /\ clipboard = <<>>

\* open_file: the loader returned a DataFrame; initial_df, display_data.
OpenFile(names) ==
    /\ loads < MaxLoads
    /\ \E f \in names :
        \E m \in { display_data(M, Files[f]) } :
           /\ Commit(m)
           /\ df_source' = f
           /\ Record("load", <<>>, m)
           /\ UNCHANGED <<pipe, clipboard>>

\* The user commits the editor of the cell ref with the text text.
EditCellAt(ref, text) ==
    \E m \in { setModelData(M, ref, text) } :
       /\ Commit(m)
       /\ UNCHANGED df_source
       /\ Record("edit_cell", <<ref>>, m)
       /\ UNCHANGED <<pipe, clipboard>>

EditCell(cap, texts) ==
    /\ pushes < cap
    /\ \E ref \in Refs(df.nrows, df.ncols), text \in texts :
        EditCellAt(ref, text)

\* Delete key with the current selection.
DeleteCells(cap) ==
    /\ pushes < cap
    /\ \E sel \in Selections(df) :
        \E m \in { delete_selected_cells(M, sel) } :
           /\ Commit(m)
           /\ UNCHANGED df_source
           /\ Record("delete_cells", sel, m)
           /\ UNCHANGED <<pipe, clipboard>>

\* Ctrl+V with the selection sel (which may be empty) and the clipboard text.
PasteAt(sel, text) ==
    \E m \in { paste_clipboard_data(M, sel, text) } :
       /\ Commit(m)
       /\ UNCHANGED df_source
       /\ Record("paste", sel, m)
       /\ UNCHANGED <<pipe, clipboard>>

Paste(cap) ==
    /\ pushes < cap
    /\ \E sel \in Selections(df), text \in Clipboards :
        PasteAt(sel, text)

\* A queued update_cell signal of the image pipeline is delivered.  An
\* IndexError raised by setData ends the slot and changes nothing.
DeliverUpdate(cap) ==
    /\ pushes < cap
    /\ df_source # "None"
    /\ \E ref \in UpdateRefs, text \in UpdateTexts :
        \E m \in { handle_update_cell(M, ref, text) } :
           /\ Commit(m)
           /\ UNCHANGED df_source
           /\ Record("handle_update_cell", <<ref>>, m)
           /\ UNCHANGED <<pipe, clipboard>>

Undo ==
    \E m \in { undo_triggered(M) } :
       /\ Commit(m)
       /\ UNCHANGED df_source
       /\ Record("undo", <<>>, m)
       /\ UNCHANGED <<pipe, clipboard>>

Redo ==
    \E m \in { redo_triggered(M) } :
       /\ Commit(m)
       /\ UNCHANGED df_source
       /\ Record("redo", <<>>, m)
       /\ UNCHANGED <<pipe, clipboard>>

\* CSVMatcherApp.sort_original_order: only once a file is open.
SortOriginalOrder ==
    /\ df_source # "None"
    /\ \E m \in { sort_original_order(M) } :
          /\ Commit(m)
          /\ UNCHANGED df_source
          /\ Record("sort_original_order", <<>>, m)
          /\ UNCHANGED <<pipe, clipboard>>

Next ==
    \/ OpenFile({"html", "csv"})
    \/ EditCell(MaxPushes, EditTexts)
    \/ DeleteCells(MaxPushes)
    \/ Paste(MaxPushes)
    \/ DeliverUpdate(MaxPushes)
    \/ Undo
    \/ Redo
    \/ SortOriginalOrder

\* Every handler, from construction on.
Spec == Init /\ [][Next]_vars

\* Files are opened and cells edited, undone and redone; the undo^N redo^N
\* rounds that follow a run of edits are followed in rt.
InitEdit ==
    /\ df = EmptyTable
    /\ original_order = <<>>
    /\ command_list = <<>>
    /\ index = 0
    /\ ignore_undo = FALSE
    /\ emitted = <<>>
    /\ df_source = "None"
    /\ op = [name |-> "init", pushed |-> 0, discarded |-> 0]
    /\ lastPush = NoPush
    /\ rt = RtOff
    /\ pushes = 0
    /\ loads = 0
    /\ undoRun = 0
    /\ PipeInit
    /\ clipboard = <<>>

NextEdit ==
    \/ OpenFile({"html", "csv"})
    \/ EditCell(MaxEdits, EditTexts)
    \/ Undo
    \/ Redo

SpecEdit == InitEdit /\ [][NextEdit]_vars

\* The state right after the application was started and the file f opened.
InitOpened(f) ==
    /\ df = Files[f]
    /\ original_order = [i \in 1 .. Files[f].nrows |-> i - 1]
    /\ command_list = <<>>
    /\ index = 0
    /\ ignore_undo = FALSE
    /\ emitted = <<>>
    /\ df_source = f
    /\ op = [name |-> "load", pushed |-> 0, discarded |-> 0]
    /\ lastPush = NoPush
    /\ rt = RtNone
    /\ pushes = 0
    /\ loads = 1
    /\ undoRun = 0
    /\ PipeInit
    /\ clipboard = <<>>

\* The one-cell file is open; its cell is edited, undone and redone until
\* more Commands have been pushed than the undo limit retains.
InitLimit == InitOpened("small")

NextLimit ==
    \/ EditCell(UndoLimit + ExtraPushes, LimitTexts)
    \/ Undo
    \/ Redo

SpecLimit == InitLimit /\ [][NextLimit]_vars

\* One file is open and stays open; every handler that pushes, undo and redo.
InitHistory == \E f \in {"html", "csv"} : InitOpened(f)

NextHistory ==
    \/ EditCell(MaxPushes, EditTexts)
    \/ DeleteCells(MaxPushes)
    \/ Paste(MaxPushes)
    \/ DeliverUpdate(MaxPushes)
    \/ Undo
    \/ Redo

SpecHistory == InitHistory /\ [][NextHistory]_vars

\* Every handler, from construction on, with few Commands pushed: files are
\* opened over a History that still holds the Commands of the file before.
NextReload ==
    \/ OpenFile({"html", "csv"})
    \/ EditCell(MaxReloadPushes, EditTexts)
    \/ DeleteCells(MaxReloadPushes)
    \/ Paste(MaxReloadPushes)
    \/ DeliverUpdate(MaxReloadPushes)
    \/ Undo
    \/ Redo
    \/ SortOriginalOrder

SpecReload == Init /\ [][NextReload]_vars

\* Ctrl+C with the selection sel: copy_selected_cells sets the clipboard
\* text, or returns when nothing is selected.
Copy ==
    \E sel \in RectSelections(df) \cup Selections(df) :
        \E m \in { M } :
           /\ clipboard' = IF sel = <<>> THEN clipboard
                           ELSE copy_selected_cells(df, sel)
           /\ Commit(m)
           /\ UNCHANGED df_source
           /\ Record("copy", sel, m)
           /\ UNCHANGED pipe

\* Ctrl+V with the selection sel and the text Ctrl+C left on the clipboard.
PasteClipboard(cap) ==
    /\ pushes < cap
    /\ \E sel \in RectSelections(df) \cup Selections(df) :
        PasteAt(sel, clipboard)

\* One file is open; cells are copied and pasted, pastes undone and redone.
NextClipboard ==
    \/ Copy
    \/ PasteClipboard(MaxClipPushes)
    \/ Undo
    \/ Redo

SpecClipboard == InitHistory /\ [][NextClipboard]_vars

(***************************************************************************)
(* The image pipeline beside the foreground.  The worker runs in its own   *)
(* thread, so its steps fall between the cell writes of a foreground       *)
(* Command: here a handler that runs a Command takes one step to start it, *)
(* one step per cell written and one step to end it.  The main thread runs *)
(* one handler or one slot at a time.                                      *)
(***************************************************************************)
\* The history variables of the rounds and pushes are not followed here.
Untracked == UNCHANGED <<lastPush, rt, loads, undoRun>>

Step(name) == op' = [name |-> name, pushed |-> 0, discarded |-> 0]

\* A handler starts the Command that takes the state to m: the push, undo
\* or redo sets ignore_undo and begins its loop of setData calls.
FgBegin(name, m) ==
    /\ ~fg.active /\ ~aborted
    /\ m.pushes # pushes \/ m.index # index
    /\ fg' = [active |-> TRUE, name |-> name,
              writes |-> [k \in 1 .. Len(m.emitted) |->
                             <<m.emitted[k], m.df.cells[m.emitted[k]]>>],
              command_list |-> m.command_list, index |-> m.index,
              pushes |-> m.pushes]
    /\ ignore_undo' = TRUE
    /\ emitted' = <<>>
    /\ Step(name)
    /\ UNCHANGED <<df, original_order, command_list, index, pushes, df_source,
                   workers, queue, main_progress_bar, interruption_requested,
                   seen, aborted,
                   clipboard>>
    /\ Untracked

\* setModelData, delete_selected_cells, paste_clipboard_data and the two
\* shortcuts, each starting its Command.
BeginEdit(cap, texts) ==
    /\ pushes < cap
    /\ \E ref \in Refs(df.nrows, df.ncols), text \in texts :
        \E m \in { setModelData(M, ref, text) } : FgBegin("edit_cell", m)

BeginDelete(cap) ==
    /\ pushes < cap
    /\ \E sel \in Selections(df) :
        \E m \in { delete_selected_cells(M, sel) } : FgBegin("delete_cells", m)

BeginPaste(cap) ==
    /\ pushes < cap
    /\ \E sel \in Selections(df), text \in PipelineTexts :
        \E m \in { paste_clipboard_data(M, sel, text) } : FgBegin("paste", m)

BeginUndo == \E m \in { undo_triggered(M) } : FgBegin("undo", m)

BeginRedo == \E m \in { redo_triggered(M) } : FgBegin("redo", m)

\* The next setData call of the Command's loop (ignore_undo branch).
FgWrite ==
    /\ fg.active /\ fg.writes # <<>>
    /\ df' = [df EXCEPT !.cells[fg.writes[1][1]] = fg.writes[1][2]]
    /\ emitted' = Append(emitted, fg.writes[1][1])
    /\ fg' = [fg EXCEPT !.writes = Tail(@)]
    /\ Step(fg.name)
    /\ UNCHANGED <<original_order, command_list, index, ignore_undo, pushes,
                   df_source, workers, queue, main_progress_bar,
                   interruption_requested, seen, aborted,
                   clipboard>>
    /\ Untracked

\* The loop is over: ignore_undo is cleared, QUndoStack records the Command
\* or moves its pointer, the handler returns.
FgEnd ==
    /\ fg.active /\ fg.writes = <<>>
    /\ command_list' = fg.command_list
    /\ index' = fg.index
    /\ pushes' = fg.pushes
    /\ ignore_undo' = FALSE
    /\ fg' = FgIdle
    /\ op' = [name |-> fg.name, pushed |-> fg.pushes - pushes,
              discarded |-> IF fg.pushes > pushes
                            THEN Len(command_list) - index ELSE 0]
    /\ UNCHANGED <<df, original_order, emitted, df_source, workers, queue,
                   main_progress_bar, interruption_requested, seen, aborted,
                   clipboard>>
    /\ Untracked

\* CSVMatcherApp.process_images from the context menu: a new QThread and a
\* new ImageProcessor for the cells selected, started at once.  self.thread
\* and self.worker are rebound whether or not the thread of the run before
\* has finished: when it has not, its QThread object loses its only
\* reference while running, and either the process is ended by qFatal
\* ("QThread: Destroyed while thread is still running") or the thread lives
\* on beside the new one.
ProcessImages(cap, downloads) ==
    /\ ~fg.active /\ ~aborted
    /\ Len(workers) < cap
    /\ \E sel \in Selections(df) \ { <<>> }, download_images \in downloads :
          \/ /\ workers' = Append(workers,
                                  ImageProcessor(sel, download_images))
             /\ seen' = Append(seen, 0)
             /\ main_progress_bar' = 0
             /\ aborted' = FALSE
          \/ /\ \E r \in 1 .. Len(workers) : workers[r].status # "done"
             /\ aborted' = TRUE
             /\ main_progress_bar' = 0
             /\ UNCHANGED <<workers, seen>>
    /\ Step("process_images")
    /\ UNCHANGED <<df, original_order, command_list, index, ignore_undo,
                   emitted, pushes, df_source, queue, fg,
                   interruption_requested,
                   clipboard>>
    /\ Untracked

\* One pass of the for loop of ImageProcessor.run in the thread of run r:
\* model.data(index) is read from the Table as it is at this moment.
RunCell(r) ==
    /\ ~aborted
    /\ workers[r].status = "running"
    /\ workers[r].i < Len(workers[r].selected_indexes)
    /\ LET i == workers[r].i + 1
           total == Len(workers[r].selected_indexes)
           ref == workers[r].selected_indexes[i]
           inside == InBounds(df, ref)
           current_data == IF inside THEN data(df, ref) ELSE EMPTY
       IN \E env \in Envs(current_data, workers[r].download_images,
                          workers[r].timestamp) :
          \E pass \in { IF inside
                        THEN run_cell(r, i, total, ref, current_data,
                                      workers[r].download_images, env)
                        ELSE run_cell_except(r, i, ref) } :
          \E s \in { emit_each([m |-> [M EXCEPT !.emitted = emitted],
                                 queue |-> queue], pass.events) } :
             /\ Commit(s.m)
             /\ queue' = s.queue
             /\ workers' =
                  [workers EXCEPT
                     ![r].i = i,
                     ![r].timestamp =
                         IF env = <<>> THEN @ ELSE env[Len(env)].timestamp,
                     ![r].file_names = @ \o pass.file_names,
                     ![r].raised =
                         @ + Cardinality({k \in DOMAIN env : env[k].raised}),
                     ![r].sent = @ \o pass.events]
    /\ Step("run")
    /\ UNCHANGED <<df_source, fg, main_progress_bar, interruption_requested,
                   seen, aborted,
                   clipboard>>
    /\ Untracked

\* The for loop is over, or the list is empty: self.finished.emit().
RunFinished(r) ==
    /\ ~aborted
    /\ workers[r].status = "running"
    /\ workers[r].i = Len(workers[r].selected_indexes)
    /\ \E events \in { run_end(r, workers[r].i,
                                Len(workers[r].selected_indexes)) } :
          \E s \in { emit_each([m |-> [M EXCEPT !.emitted = emitted],
                                 queue |-> queue], events) } :
             /\ queue' = s.queue
             /\ workers' = [workers EXCEPT ![r].status = "finished",
                                           ![r].sent = @ \o events]
    /\ Step("run_finished")
    /\ UNCHANGED <<df, original_order, command_list, index, ignore_undo,
                   emitted, pushes, df_source, fg, main_progress_bar,
                   interruption_requested, seen, aborted,
                   clipboard>>
    /\ Untracked

Run == \E r \in 1 .. Len(workers) : RunCell(r) \/ RunFinished(r)

\* The main thread's event loop takes the next posted call, between two
\* handlers.
Taken(kinds) ==
    /\ ~fg.active /\ ~aborted
    /\ queue # <<>>
    /\ queue[1].kind \in kinds
    /\ queue' = Tail(queue)
    /\ seen' = [seen EXCEPT ![queue[1].run] = queue[1].i]

\* The slot handle_update_cell runs with the posted index and new_data.
HandleUpdateCell ==
    /\ Taken({"update_cell"})
    /\ \E m \in { handle_update_cell(M, queue[1].index, queue[1].new_data) } :
          /\ Commit(m)
          /\ Record("handle_update_cell", <<queue[1].index>>, m)
    /\ UNCHANGED <<df_source, workers, fg, main_progress_bar,
                   interruption_requested, aborted,
                   clipboard>>

\* The slot update_main_progress.
UpdateMainProgress ==
    /\ Taken({"progress"})
    /\ main_progress_bar' = queue[1].value
    /\ Step("update_main_progress")
    /\ UNCHANGED <<df, original_order, command_list, index, ignore_undo,
                   emitted, pushes, df_source, workers, fg,
                   interruption_requested, aborted,
                   clipboard>>
    /\ Untracked

\* The slot update_log, connected to log and to error.
UpdateLog ==
    /\ Taken({"log", "error"})
    /\ Step("update_log")
    /\ UNCHANGED <<df, original_order, command_list, index, ignore_undo,
                   emitted, pushes, df_source, workers, fg, main_progress_bar,
                   interruption_requested, aborted,
                   clipboard>>
    /\ Untracked

\* thread.quit, then the thread's finished signal: on_processing_finished.
OnProcessingFinished ==
    /\ Taken({"finished"})
    /\ workers' = [workers EXCEPT ![queue[1].run].status = "done"]
    /\ main_progress_bar' = 100
    /\ Step("on_processing_finished")
    /\ UNCHANGED <<df, original_order, command_list, index, ignore_undo,
                   emitted, pushes, df_source, fg, interruption_requested, aborted,
                   clipboard>>
    /\ Untracked

\* The file of markup cells is open.
InitPipeline == InitOpened("img")

\* Something outside the worker asks its thread to stop while a run is
\* going on: QThread.requestInterruption(), the one cancellation signal a
\* QThread has.  mantra.py neither sends it nor reads it: run never calls
\* isInterruptionRequested() and has no flag of its own.
RequestInterruption ==
    /\ ~fg.active /\ ~aborted
    /\ ~interruption_requested
    /\ \E r \in 1 .. Len(workers) : workers[r].status = "running"
    /\ interruption_requested' = TRUE
    /\ Step("requestInterruption")
    /\ UNCHANGED <<df, original_order, command_list, index, ignore_undo,
                   emitted, pushes, df_source, workers, queue, fg,
                   main_progress_bar, aborted, seen,
                   clipboard>>
    /\ Untracked

\* Image runs, the slots they are connected to, and undo and redo of the
\* Commands the deliveries push.
NextPipeline ==
    \/ ProcessImages(MaxPipelineRuns, {FALSE})
    \/ Run
    \/ HandleUpdateCell
    \/ UpdateMainProgress
    \/ UpdateLog
    \/ OnProcessingFinished
    \/ BeginUndo
    \/ BeginRedo
    \/ FgWrite
    \/ FgEnd

SpecPipeline == InitPipeline /\ [][NextPipeline]_vars

\* The same beside the user's own Commands: edit, delete and paste.
NextRace ==
    \/ BeginEdit(MaxFgPushes, PipelineTexts)
    \/ BeginDelete(MaxFgPushes)
    \/ BeginPaste(MaxFgPushes)
    \/ NextPipeline

SpecRace == InitPipeline /\ [][NextRace]_vars

\* Image runs started from the context menu one after the other, whether
\* or not the run before is over, and asked to stop.
NextRuns ==
    \/ ProcessImages(MaxRuns, {FALSE})
    \/ RequestInterruption
    \/ Run
    \/ HandleUpdateCell
    \/ UpdateMainProgress
    \/ UpdateLog
    \/ OnProcessingFinished

SpecRuns == InitPipeline /\ [][NextRuns]_vars

\* selected_indexes of a worker: a rectangle of the file's cells in the
\* order of the drag that selected it, from its first cell or from its
\* last, or no cell at all.
WorkerLists ==
    LET reversed(sel) == [k \in 1 .. Len(sel) |-> sel[Len(sel) + 1 - k]]
    IN { <<>> } \cup RectSelections(Files["run"])
       \cup { reversed(sel) : sel \in RectSelections(Files["run"]) }

\* An ImageProcessor was constructed for a list of cells of the open file
\* and moved to its QThread, and the thread was started.  process_images
\* passes the cells selected with the answer given to the download
\* question; the constructor takes any list, the empty one too, for which
\* run has a branch of its own.
InitRunning(f, lists, downloads) ==
    /\ df = Files[f]
    /\ original_order = [i \in 1 .. Files[f].nrows |-> i - 1]
    /\ command_list = <<>>
    /\ index = 0
    /\ ignore_undo = FALSE
    /\ emitted = <<>>
    /\ df_source = f
    /\ op = [name |-> "process_images", pushed |-> 0, discarded |-> 0]
    /\ lastPush = NoPush
    /\ rt = RtNone
    /\ pushes = 0
    /\ loads = 1
    /\ undoRun = 0
    /\ \E selected_indexes \in lists, download_images \in downloads :
          workers = << ImageProcessor(selected_indexes, download_images) >>
    /\ queue = <<>>
    /\ fg = FgIdle
    /\ main_progress_bar = 0
    /\ interruption_requested = FALSE
    /\ aborted = FALSE
    /\ seen = <<0>>
    /\ clipboard = <<>>

InitWorker == InitRunning("run", WorkerLists, BOOLEAN)

\* The run and the slots its signals are connected to.
NextWorker ==
    \/ Run
    \/ HandleUpdateCell
    \/ UpdateMainProgress
    \/ UpdateLog
    \/ OnProcessingFinished

SpecWorker == InitWorker /\ [][NextWorker]_vars

\* The same when the worker's thread is scheduled again and again and each
\* fetch and each file write returns, with a result or with an exception.
SpecWorkerLive == SpecWorker /\ WF_vars(Run)

\* An image run over cells of the file of markup cells, started without
\* download, beside the user's edits of single cells, and undo.
InitOverwrite ==
    InitRunning("img", Selections(Files["img"]) \ { <<>> }, {FALSE})

NextOverwrite ==
    \/ Run
    \/ HandleUpdateCell
    \/ UpdateMainProgress
    \/ UpdateLog
    \/ OnProcessingFinished
    \/ BeginEdit(MaxFgPushes, EditTexts)
    \/ BeginUndo
    \/ FgWrite
    \/ FgEnd

SpecOverwrite == InitOverwrite /\ [][NextOverwrite]_vars

\* A run over cells of the file of every content, started without
\* download; while it goes on the user opens the .xls file, and undoes.
InitRunReload == InitRunning("run", WorkerLists, {FALSE})

\* open_file between two handlers of the main thread.
OpenFileIdle(names) ==
    /\ ~fg.active /\ ~aborted
    /\ OpenFile(names)

NextRunReload ==
    \/ Run
    \/ HandleUpdateCell
    \/ UpdateMainProgress
    \/ UpdateLog
    \/ OnProcessingFinished
    \/ OpenFileIdle({"html"})
    \/ BeginUndo
    \/ FgWrite
    \/ FgEnd

SpecRunReload == InitRunReload /\ [][NextRunReload]_vars

(***************************************************************************)
(* Properties                                                              *)
(***************************************************************************)
\* A blank value: empty or absent.
Blank(value) == value = EMPTY \/ value = NA

\* The cell of a non-empty selection that comes first in (row, column) order.
TopLeft(sel) ==
    CHOOSE ref \in {sel[k] : k \in 1 .. Len(sel)} :
        \A k \in 1 .. Len(sel) :
            ref[1] < sel[k][1] \/ (ref[1] = sel[k][1] /\ ref[2] <= sel[k][2])

\* The last handler was an undo, and it undid the Command pushed last.
UndidLastPush ==
    op.name = "undo" /\ lastPush.kind # "none" /\ index = lastPush.idx - 1

\* C1: after a run of cell edits on a loaded Table, N undos followed by N
\* redos leave every cell the edits touched with the value it had just
\* before the first undo.
RoundTripRestoresTouched ==
    (rt.phase = "redo" /\ rt.nRedo = rt.nUndo) =>
        \A ref \in rt.touched : df.cells[ref] = rt.snap[ref]

\* C1 witness: two undos and two redos after edits of two different cells.
RoundTripOfTwo ==
    /\ rt.phase = "redo"
    /\ rt.nUndo = 2
    /\ rt.nRedo = 2
    /\ Cardinality(rt.touched) >= 2

\* The History never retains more Commands than the undo limit.
HistoryWithinLimit == Len(command_list) <= UndoLimit /\ index <= Len(command_list)

\* A push on a full History whose pointer is at the end drops the oldest
\* Command and writes the new Command's cell only: one change event, every
\* other cell as it was.
PushAtLimitDropsOldest ==
    (Len(command_list) = UndoLimit /\ index = UndoLimit /\ pushes' = pushes + 1) =>
        /\ Len(command_list') = UndoLimit
        /\ SubSeq(command_list', 1, UndoLimit - 1) = Tail(command_list)
        /\ index' = UndoLimit
        /\ emitted' = << command_list'[UndoLimit].index >>
        /\ \A ref \in Refs(df.nrows, df.ncols) \ {command_list'[UndoLimit].index} :
               df'.cells[ref] = df.cells[ref]

\* After UndoLimit consecutive undos the next undo changes nothing.
UndoBeyondLimitIsNoOp ==
    (undoRun = UndoLimit /\ op'.name = "undo") => (df' = df /\ index' = index)

PushDiscardsRedoTail ==
    pushes' > pushes =>
        LET kept == SubSeq(command_list, 1, index)
            n == Len(command_list')
        IN /\ pushes' = pushes + 1
           /\ index' = n
           /\ n >= 1
           /\ SubSeq(command_list', 1, n - 1) =
                  IF Len(kept) < UndoLimit THEN kept ELSE Tail(kept)

\* A redo that follows a push changes nothing.
RedoAfterPushIsNoOp ==
    (op.pushed > 0 /\ op'.name = "redo") =>
        (df' = df /\ index' = index /\ command_list' = command_list)

\* C3: a push made while the pointer is not at the end discards every
\* Command after the pointer before appending, whichever handler pushes
\* (edit, delete, paste, pipeline delivery); a following redo is a no-op.
PushMakesHistoryLinear ==
    [][PushDiscardsRedoTail /\ RedoAfterPushIsNoOp]_vars

\* C3 witness: a pipeline delivery pushed while Commands lay after the pointer.
DeliveryDiscardedRedoTail ==
    op.name = "handle_update_cell" /\ op.pushed = 1 /\ op.discarded > 0

\* C4: immediately after a load the History is empty.
LoadDiscardsHistory ==
    op.name = "load" => (command_list = <<>> /\ index = 0)

\* C4 witness: with no Command pushed since the second load, an undo has
\* changed the Table that load installed.
StaleUndoWroteNewTable ==
    /\ op.name = "undo"
    /\ loads = 2
    /\ lastPush.kind = "none"
    /\ df.cells # Files[df_source].cells

\* C5: applying a Command of any kind and then undoing it restores every
\* affected cell to exactly its stored value before the application (empty
\* and absent kept distinct), however many redo-undo rounds were made.
UndoRestoresExactly ==
    UndidLastPush => \A ref \in lastPush.refs : df.cells[ref] = lastPush.before[ref]

\* C6: a delete over a set of cells blanks all of them with one DeleteCells
\* Command, and one undo restores the exact prior value of every cell of
\* the set.
DeleteThenUndoRestoresAll ==
    /\ (op.name = "delete_cells" /\ op.pushed > 0) =>
           /\ op.pushed = 1
           /\ lastPush.kind = "DeleteCells"
           /\ \A ref \in lastPush.refs : Blank(df.cells[ref])
    /\ (UndidLastPush /\ lastPush.kind = "DeleteCells") =>
           \A ref \in lastPush.refs : df.cells[ref] = lastPush.before[ref]

\* C7: a paste of a one-row, one-column payload into several selected cells
\* pushes exactly one Command, changes no cell outside the selection, and
\* one undo returns every selected cell to its prior value.
BroadcastPasteThenUndoRestores ==
    /\ (op.name = "paste" /\ op.pushed > 0 /\ lastPush.kind = "PasteMultiple") =>
           /\ op.pushed = 1
           /\ \A ref \in Refs(df.nrows, df.ncols) \ lastPush.refs :
                  df.cells[ref] = lastPush.before[ref]
    /\ (UndidLastPush /\ lastPush.kind = "PasteMultiple") =>
           \A ref \in lastPush.refs : df.cells[ref] = lastPush.before[ref]

\* The value block[i][j] as a cell stores it: '' is stored as blank.
StoredAs(stored, value) ==
    IF value = EMPTY THEN Blank(stored) ELSE stored = value

\* The paste of the block of text anchored at the top-left cell of sel.
RegionPasteAtTopLeft(sel, text) ==
    LET block == data_matrix_of(text)
        r0 == TopLeft(sel)[1]
        c0 == TopLeft(sel)[2]
        InBlock(ref) ==
            /\ ref[1] - r0 \in 0 .. Len(block) - 1
            /\ ref[2] - c0 \in 0 .. Len(block[ref[1] - r0 + 1]) - 1
    IN /\ pushes' = pushes + 1
       /\ \A ref \in Refs(df.nrows, df.ncols) :
              IF InBlock(ref)
              THEN StoredAs(df'.cells[ref], block[ref[1] - r0 + 1][ref[2] - c0 + 1])
              ELSE df'.cells[ref] = df.cells[ref]

\* C8: a region paste writes block[i][j] to (r0+i, c0+j), (r0, c0) the
\* top-left cell of the selection, for the positions inside the Table and
\* no others, and pushes exactly one Command.
RegionPasteFromTopLeft ==
    [][\A sel \in Selections(df) \ {<<>>}, text \in Clipboards \ {<<>>} :
          LET block == data_matrix_of(text)
          IN (PasteAt(sel, text) /\ Len(block) >= 1
                /\ ~(Len(block) = 1 /\ Len(block[1]) = 1))
             => RegionPasteAtTopLeft(sel, text)]_vars

\* The new text equals the stored value, or both are blank.
SameValue(stored, text) == stored = text \/ (Blank(stored) /\ Blank(text))

\* C9: an edit whose new value equals the cell's current value (both blank
\* included) leaves the Table and the History as they were and emits no
\* change event.
EditOfSameValueIsNoOp ==
    [][\A ref \in Refs(df.nrows, df.ncols), text \in EditTexts :
          (EditCellAt(ref, text) /\ SameValue(df.cells[ref], text))
          => (df' = df /\ command_list' = command_list /\ index' = index
              /\ emitted' = <<>>)]_vars

\* C10: an undo or a redo pushes nothing: it leaves the retained Commands as
\* they are, moves the pointer by one (when there is a Command to undo or
\* redo) and leaves the suppression flag cleared.
UndoRedoNeverPush ==
    [][op'.name \in {"undo", "redo"} =>
          /\ command_list' = command_list
          /\ pushes' = pushes
          /\ ignore_undo' = FALSE
          /\ op'.name = "undo" =>
                 index' = IF index > 0 THEN index - 1 ELSE index
          /\ op'.name = "redo" =>
                 index' = IF index < Len(command_list) THEN index + 1 ELSE index]_vars

\* C10 witness: an undo has written two or more cells of the Table and the
\* undone Command is still retained after the pointer.
UndoWroteCells ==
    op.name = "undo" /\ Len(emitted) >= 2 /\ index < Len(command_list)

\* C11: a paste with an empty clipboard, with a clipboard of blank lines or
\* whitespace only, or with no cell selected pushes no Command and leaves the
\* Table and the History as they were.
PasteWithoutInputIsRejected ==
    [][\A sel \in Selections(df), text \in Clipboards :
          (PasteAt(sel, text) /\ (sel = <<>> \/ strip(text) = <<>>))
          => (df' = df /\ command_list' = command_list /\ index' = index
              /\ pushes' = pushes)]_vars

\* C11 witness: a paste made with no cell selected has pushed a Command that
\* names no cell.
PasteOfNoSelectionPushed ==
    /\ op.name = "paste" /\ op.pushed = 1
    /\ command_list[index].kind = "PasteMultiple"
    /\ command_list[index].indexes = <<>>

\* The cells a handler's change events named.
EmittedRefs(events) == {events[k] : k \in 1 .. Len(events)}

EveryMutationEmits ==
    [][op'.name # "load" =>
          \A ref \in DOMAIN df.cells :
              (ref \in DOMAIN df'.cells /\ df'.cells[ref] # df.cells[ref])
              => ref \in EmittedRefs(emitted')]_vars

\* C13 witness: a paste has changed two or more cells and has emitted one
\* change event for each of them.
PasteEmittedForEachCell ==
    /\ op.name = "paste" /\ op.pushed = 1
    /\ Len(emitted) >= 2
    /\ \A k \in 1 .. Len(emitted) :
          df.cells[emitted[k]] # lastPush.before[emitted[k]]

\* C14: no handler other than a load changes the Table's row count, column
\* count or column names: the cells stay exactly those of the rows and
\* columns loaded, one value per row and column, so every cell reference
\* that was in bounds stays in bounds.
ShapeFixedBetweenLoads ==
    [][op'.name # "load" =>
          /\ df'.nrows = df.nrows
          /\ df'.ncols = df.ncols
          /\ df'.columns = df.columns
          /\ DOMAIN df'.cells = Refs(df.nrows, df.ncols)
          /\ \A ref \in Refs(df.nrows, df.ncols) : InBounds(df', ref)]_vars

\* C14 witness: an undo has just been given a cell outside the Table now
\* open (a Command of the file open before), and the Table has the shape
\* of the file loaded.
UndoReachedOutsideTable ==
    /\ op.name = "undo" /\ index < Len(command_list)
    /\ \E ref \in CommandRefs(command_list[index + 1]) : ~InBounds(df, ref)
    /\ df_source = "csv" /\ df.nrows = 1 /\ df.ncols = 2
    /\ Len(df.columns) = 2

\* A step of a worker's thread: a pass of the loop of run, or its end.
WorkerStep ==
    /\ Len(workers') = Len(workers)
    /\ \E r \in 1 .. Len(workers) :
          \/ workers'[r].i = workers[r].i + 1
          \/ workers[r].status = "running" /\ workers'[r].status = "finished"

\* A pass of the loop of run r over its next cell.
WorkerCellStep(r) ==
    /\ Len(workers') = Len(workers)
    /\ workers'[r].i = workers[r].i + 1

\* C15: a step of the pipeline's thread leaves the Table and the History
\* as they are; a cell it rewrote is posted as an update_cell event with the
\* rewritten text, and the Table changes only in steps of the foreground.
WorkerNeverWritesTable ==
    [][/\ WorkerStep =>
             /\ df' = df /\ command_list' = command_list /\ index' = index
             /\ pushes' = pushes /\ emitted' = emitted
       /\ \A r \in 1 .. Len(workers) :
             WorkerCellStep(r) =>
                LET ref == workers[r].selected_indexes[workers'[r].i]
                    current_data == data(df, ref)
                IN find_all_img(current_data) # <<>> =>
                      \E k \in Len(queue) + 1 .. Len(queue') :
                          /\ queue'[k].kind = "update_cell"
                          /\ queue'[k].index = ref
                          /\ queue'[k].new_data =
                                [j \in 1 .. Len(current_data) |->
                                    rewrite_src(current_data[j])]
       /\ df' # df =>
             op'.name \in {"edit_cell", "delete_cells", "paste", "undo",
                           "redo", "handle_update_cell"}]_vars

\* C15 witness: the slot handle_update_cell has written the rewritten text
\* of both image cells while the run that posted them is over.
BothUpdatesWrittenByForeground ==
    /\ op.name = "handle_update_cell" /\ op.pushed = 1
    /\ df.cells[<<0, 0>>] = <<"<img p/u>">>
    /\ df.cells[<<0, 2>>] = <<"<img p/v>">>
    /\ \A r \in 1 .. Len(workers) : workers[r].status # "running"

\* C16: no pass of the loop of run, which reads its cell from the Table,
\* is made while a foreground Command (an edit, a delete, a paste, an undo
\* or a redo) is between its start and its end.
WorkerReadsOnlyBetweenCommands ==
    [][\A r \in 1 .. Len(workers) : WorkerCellStep(r) => ~fg.active]_vars

\* C16 witness: the worker has just read a cell while a Command of two or
\* more cells had written some of its cells and not yet the others.
WorkerReadAmidCommand ==
    /\ op.name = "run"
    /\ fg.active /\ fg.name \in {"delete_cells", "paste"}
    /\ emitted # <<>> /\ fg.writes # <<>>

\* A step in which a rewritten text of the pipeline is written to the Table:
\* by the slot, or by a step of the worker's own thread.
PipelineWrite ==
    /\ df' # df
    /\ op'.name \in {"handle_update_cell", "run"}

\* C17: a rewritten text of the pipeline is written to the Table only while
\* no foreground push, undo or redo is between its start and its end: the
\* write finds ignore_undo cleared, pushes one Command that is placed right
\* before the pointer, and no slot runs while a Command is in progress.
DeliveryOutsideCommands ==
    [][/\ PipelineWrite =>
             /\ ~fg.active
             /\ ignore_undo = FALSE /\ ignore_undo' = FALSE
             /\ pushes' = pushes + 1
             /\ index' = Len(command_list')
             /\ command_list'[index'].kind = "EditCell"
             /\ df'.cells[command_list'[index'].index]
                    = command_list'[index'].new_value
       /\ Len(queue') < Len(queue) => (~fg.active /\ ~fg'.active)]_vars

\* C17 witness: an update_cell event waits in the queue while an undo of an
\* earlier delivery is between its start and its end.
UpdateWaitsForUndo ==
    /\ fg.active /\ fg.name = "undo" /\ ignore_undo
    /\ \E k \in 1 .. Len(queue) : queue[k].kind = "update_cell"

\* The runs whose loop is still going on.
ActiveRuns == {r \in 1 .. Len(workers) : workers[r].status = "running"}

\* C18: at most one image run is active at any time, and process_images
\* called while a run is active starts nothing beside it: the request is
\* turned down or the new run waits, and the process goes on.
OneRunAtATime ==
    /\ [](Cardinality(ActiveRuns) <= 1)
    /\ [][(op'.name = "process_images" /\ ActiveRuns # {}) =>
             /\ ~aborted'
             /\ \/ workers' = workers
                \/ /\ Len(workers') = Len(workers) + 1
                   /\ SubSeq(workers', 1, Len(workers)) = workers
                   /\ workers'[Len(workers')].status = "queued"]_vars

\* C18 witness: two runs are active over the same Table, each with cells
\* of its list still to read.
TwoRunsActive ==
    /\ Len(workers) = 2
    /\ \A r \in 1 .. 2 :
          /\ workers[r].status = "running"
          /\ workers[r].i < Len(workers[r].selected_indexes)

\* C19: once cancellation has been signalled, the worker makes no further
\* pass of its loop over a cell.
NoCellAfterCancellation ==
    [][interruption_requested =>
          \A r \in 1 .. Len(workers) : ~WorkerCellStep(r)]_vars

\* C19 witness: after the cancellation was signalled the worker has read the
\* last cell of its list and posted the rewritten text of it.
CellProcessedAfterCancellation ==
    /\ interruption_requested
    /\ op.name = "run"
    /\ \E r \in 1 .. Len(workers) :
          /\ workers[r].i = Len(workers[r].selected_indexes)
          /\ queue # <<>>
          /\ queue[Len(queue)].run = r
          /\ queue[Len(queue)].i = workers[r].i

\* C20: a run reads the cells of its list one at a time in the order of the
\* list and posts the events of a cell before it reads the next; the
\* foreground is handed the events of a run in that order, so that after an
\* event of the j-th cell no event of an earlier cell of the run follows.
EventsInCellOrder ==
    [][/\ \A r \in 1 .. Len(workers) :
             WorkerCellStep(r) =>
                /\ Len(queue') >= Len(queue)
                /\ \A k \in 1 .. Len(queue') :
                      (queue'[k].run = r /\ queue'[k].i >= workers'[r].i) =>
                          /\ queue'[k].i = workers[r].i + 1
                          /\ queue'[k].index =
                                workers[r].selected_indexes[workers[r].i + 1]
       /\ Len(queue') < Len(queue) =>
             /\ Len(seen') = Len(seen)
             /\ \A r \in 1 .. Len(seen) : seen'[r] >= seen[r]
             /\ \A k \in 1 .. Len(queue') :
                   \A r \in 1 .. Len(seen) :
                       queue'[k].run = r => queue'[k].i >= seen'[r]]_vars

\* C20 witness: of a run over the last cell and then the first, the update
\* of the first cell is delivered after the update of the last cell was.
SecondCellDeliveredSecond ==
    /\ op.name = "handle_update_cell"
    /\ emitted = << <<0, 0>> >>
    /\ df.cells[<<0, 2>>] = <<"<img p/v>">>
    /\ \E r \in 1 .. Len(workers) :
          /\ workers[r].selected_indexes = << <<0, 2>>, <<0, 0>> >>
          /\ seen[r] = 2

\* C30: every Command an edit of a cell pushes changes the stored value of
\* that cell; in particular an edit of a blank cell with a text the Table
\* stores as blank pushes nothing.
EditPushChangesStoredValue ==
    [][\A ref \in Refs(df.nrows, df.ncols), text \in EditTexts :
          (EditCellAt(ref, text) /\ pushes' > pushes)
          => df'.cells[ref] # df.cells[ref]]_vars

\* C30 witness: an edit has pushed a Command whose old value is absent and
\* whose new value is the placeholder text, and the cell is stored absent.
PlaceholderEditPushedOverBlank ==
    /\ op.name = "edit_cell" /\ op.pushed = 1
    /\ command_list[index].kind = "EditCell"
    /\ command_list[index].old_value = NA
    /\ command_list[index].new_value = PLACEHOLDER
    /\ df.cells[command_list[index].index] = NA

\* The texts of all cells, as DataFrameModel.data shows them.
Texts(d) == [ref \in DOMAIN d.cells |-> data(d, ref)]

\* No tab and no newline in the text of any cell of the selection.
NoSeparators(d, sel) ==
    \A k \in 1 .. Len(sel) : \A j \in 1 .. Len(data(d, sel[k])) :
        data(d, sel[k])[j] \notin {"\t", "\n"}

\* C29: pasting the text that a copy of a rectangular selection produced,
\* with the same selection still selected or with only its top-left cell
\* selected, leaves the text of every cell of the Table as it was, whether
\* or not the first or the last cell of the selection is blank.
CopyPasteRoundTrip ==
    [][\A sel \in RectSelections(df) : \A anchor \in { sel, <<sel[1]>> } :
          (/\ clipboard = copy_selected_cells(df, sel)
           /\ NoSeparators(df, sel)
           /\ PasteAt(anchor, clipboard))
          => Texts(df') = Texts(df)]_vars

\* C29 witness: the copy of a selection whose first cell is blank was pasted
\* with that first cell alone selected; the text arrived as one value and
\* the blank cell now shows it.
CopiedBlockPastedAsOneValue ==
    /\ op.name = "paste" /\ op.pushed = 1
    /\ lastPush.kind = "PasteMultiple"
    /\ Len(clipboard) >= 2 /\ clipboard[1] \in {"\t", "\n"}
    /\ \E ref \in DOMAIN df.cells :
          /\ lastPush.refs = {ref}
          /\ Blank(lastPush.before[ref])
          /\ ~Blank(df.cells[ref])

\* The positions of the signals of one kind among those a run has emitted.
SentOf(r, kind) ==
    {k \in 1 .. Len(workers[r].sent) : workers[r].sent[k].kind = kind}

\* The completion signal of run r, if emitted, was emitted once and last,
\* and the run has left its loop exactly when it was emitted.
CompletedOnceAndLast(r) ==
    /\ Cardinality(SentOf(r, "finished")) <= 1
    /\ SentOf(r, "finished") # {} => SentOf(r, "finished") = {Len(workers[r].sent)}
    /\ workers[r].status # "running" <=> SentOf(r, "finished") # {}

\* C21: every run, whatever its list (the empty one, one whose every cell
\* fails), eventually emits its completion signal, exactly once, and emits
\* no progress, log, result or error signal after it.
EveryRunCompletesOnce ==
    /\ [](\A r \in 1 .. Len(workers) : CompletedOnceAndLast(r))
    /\ <>[](\A r \in 1 .. Len(workers) : SentOf(r, "finished") # {})

\* C21 witness: a run whose every cell reported an error has emitted its
\* completion signal.
FailedRunCompleted ==
    \E r \in 1 .. Len(workers) :
        /\ workers[r].selected_indexes # <<>>
        /\ \A i \in 1 .. Len(workers[r].selected_indexes) :
              \E k \in SentOf(r, "error") : workers[r].sent[k].i = i
        /\ SentOf(r, "finished") = {Len(workers[r].sent)}

\* The cells of the list of run r, by position, as the file holds them
\* when the run starts.
CellText(r, i) == data(Files["run"], workers[r].selected_indexes[i])

MalformedCells(r) ==
    {i \in 1 .. Len(workers[r].selected_indexes) :
        \E k \in 1 .. Len(CellText(r, i)) : CellText(r, i)[k] = MalformedElement}

\* new_data differs from the text read and names no remote and no embedded
\* source any more.
Rewritten(new_data, current_data) ==
    /\ new_data # current_data
    /\ \A k \in 1 .. Len(new_data) :
          new_data[k] \notin RemoteElements \cup {Base64Element}

\* C22: a run over n cells that all hold images, exactly one of them with a
\* malformed reference, and no fetch or write failing, emits one rewritten
\* result for each of the other n-1 cells and exactly one error, for the
\* malformed cell; its last progress is n of n (100), then the completion.
OneMalformedCellOneFailure ==
    \A r \in 1 .. Len(workers) :
        LET n == Len(workers[r].selected_indexes)
            sent == workers[r].sent
        IN (/\ workers[r].status # "running"
            /\ \A i \in 1 .. n : find_all_img(CellText(r, i)) # <<>>
            /\ Cardinality(MalformedCells(r)) = 1
            /\ workers[r].raised = 0)
           => /\ \A i \in (1 .. n) \ MalformedCells(r) :
                    /\ Cardinality({k \in SentOf(r, "update_cell") :
                                       sent[k].i = i}) = 1
                    /\ \A k \in SentOf(r, "update_cell") :
                          sent[k].i = i
                          => Rewritten(sent[k].new_data, CellText(r, i))
              /\ Cardinality(SentOf(r, "error")) = 1
              /\ \A k \in SentOf(r, "error") : sent[k].i \in MalformedCells(r)
              /\ Len(sent) >= 2
              /\ sent[Len(sent)].kind = "finished"
              /\ sent[Len(sent) - 1].kind = "progress"
              /\ sent[Len(sent) - 1].value = 100

\* C22 witness: a run over three image cells, the second one malformed, is
\* over; it has sent two rewritten results and reported one error.
MalformedMiddleRunCompleted ==
    \E r \in 1 .. Len(workers) :
        /\ workers[r].status # "running"
        /\ Len(workers[r].selected_indexes) = 3
        /\ MalformedCells(r) = {2}
        /\ \A i \in {1, 3} : find_all_img(CellText(r, i)) # <<>>
        /\ workers[r].raised = 0
        /\ Cardinality(SentOf(r, "error")) = 1
        /\ \A i \in {1, 3} :
              \E k \in SentOf(r, "update_cell") :
                  /\ workers[r].sent[k].i = i
                  /\ Rewritten(workers[r].sent[k].new_data, CellText(r, i))

\* C23: each cell of the list a run has passed, with or without an image,
\* changed or not, was followed by one progress signal with the value
\* completed/total (as a percentage), so the last one of a run is n of n.
ProgressAfterEveryCell ==
    \A r \in 1 .. Len(workers) :
        LET n == Len(workers[r].selected_indexes)
            sent == workers[r].sent
        IN \A i \in 1 .. workers[r].i :
              Cardinality({k \in SentOf(r, "progress") :
                              /\ sent[k].i = i
                              /\ sent[k].value = (i * 100) \div n}) = 1

\* C23 witness: a run over a list that ends with a cell without an image is
\* over, and the last progress it sent is below 100.
RunEndedBelowFullProgress ==
    \E r \in 1 .. Len(workers) :
        LET n == Len(workers[r].selected_indexes)
            sent == workers[r].sent
        IN /\ workers[r].status # "running"
           /\ n >= 2
           /\ find_all_img(CellText(r, n)) = <<>>
           /\ SentOf(r, "progress") # {}
           /\ \A k \in SentOf(r, "progress") : sent[k].value < 100

\* C24: with download enabled, every cell of a run that held a remote
\* reference has sent its text with that reference rewritten to the new
\* path and the file name, whether the fetch succeeded or failed.
FailedFetchStillRewrites ==
    \A r \in 1 .. Len(workers) :
        workers[r].download_images =>
            \A i \in 1 .. workers[r].i :
                (\E j \in 1 .. Len(CellText(r, i)) :
                     CellText(r, i)[j] \in RemoteElements)
                => \E k \in SentOf(r, "update_cell") :
                      /\ workers[r].sent[k].i = i
                      /\ workers[r].sent[k].new_data =
                            [j \in 1 .. Len(CellText(r, i)) |->
                                rewrite_src(CellText(r, i)[j])]

\* C24 witness: with download enabled a fetch has failed, and the cell's
\* text was sent with the remote reference as it was.
FailedFetchLeftReference ==
    \E r \in 1 .. Len(workers) :
        /\ workers[r].download_images
        /\ workers[r].raised > 0
        /\ \E k \in SentOf(r, "update_cell") :
              /\ workers[r].sent[k].new_data = CellText(r, workers[r].sent[k].i)
              /\ workers[r].sent[k].new_data[1] \in RemoteElements
              /\ \E e \in SentOf(r, "error") :
                    workers[r].sent[e].i = workers[r].sent[k].i

\* The signals run r has emitted for the cell at position i of its list.
SentFor(r, i, kinds) ==
    {k \in 1 .. Len(workers[r].sent) :
        /\ workers[r].sent[k].i = i
        /\ workers[r].sent[k].kind \in kinds}

\* C26: the pass of a run over a cell that is blank or holds no img element
\* emits no update_cell and no error and leaves the Table and the History
\* as they are; no update and no error of a run belongs to such a cell.
CellWithoutImageSkipped ==
    /\ [](\A r \in 1 .. Len(workers) : \A i \in 1 .. workers[r].i :
             find_all_img(CellText(r, i)) = <<>>
             => SentFor(r, i, {"update_cell", "error"}) = {})
    /\ [][\A r \in 1 .. Len(workers) :
             (/\ WorkerCellStep(r)
              /\ find_all_img(data(df, workers[r].selected_indexes[
                                           workers'[r].i])) = <<>>)
             => /\ \A k \in Len(queue) + 1 .. Len(queue') :
                      queue'[k].kind \notin {"update_cell", "error"}
                /\ df' = df
                /\ command_list' = command_list
                /\ index' = index
                /\ pushes' = pushes]_vars

\* C26 witness: a run has passed an empty cell and a cell of plain text and
\* is over, every update it sent was delivered, and both cells hold what
\* the file held.
BlankAndTextCellsPassed ==
    \E r \in 1 .. Len(workers) :
        LET n == Len(workers[r].selected_indexes)
        IN /\ workers[r].status = "done"
           /\ queue = <<>>
           /\ \E i \in 1 .. n : CellText(r, i) = EMPTY
           /\ \E i \in 1 .. n : CellText(r, i) = <<"b">>
           /\ \A i \in 1 .. n :
                 find_all_img(CellText(r, i)) = <<>>
                 => df.cells[workers[r].selected_indexes[i]]
                       = Files["run"].cells[workers[r].selected_indexes[i]]
           /\ pushes > 0

\* C27: the file names a run has built for embedded images differ from one
\* another, for images of different cells and of the same cell.
Base64FileNamesDistinct ==
    \A r \in 1 .. Len(workers) :
        \A j, k \in 1 .. Len(workers[r].file_names) :
            j # k => workers[r].file_names[j] # workers[r].file_names[k]

\* C27 witness: both embedded images of one cell were written, under one
\* file name, and the text sent for the cell names that file twice.
TwoImagesOneFileName ==
    \E r \in 1 .. Len(workers) :
        /\ workers[r].raised = 0
        /\ Len(workers[r].file_names) = 2
        /\ workers[r].file_names[1] = workers[r].file_names[2]
        /\ \E k \in SentOf(r, "update_cell") :
              /\ Len(workers[r].sent[k].new_data) = 2
              /\ workers[r].sent[k].new_data[1] = workers[r].sent[k].new_data[2]
              /\ workers[r].sent[k].new_data[1] # Base64Element

\* The handlers' state after the step.
Mafter ==
    [df |-> df', original_order |-> original_order',
     command_list |-> command_list', index |-> index',
     ignore_undo |-> ignore_undo', emitted |-> <<>>,
     pushes |-> pushes', raised |-> FALSE]

\* What a cell shows after the user has edited it: nothing or plain text.
UserTexts == {EMPTY, <<"b">>}

\* C28: when an update reaches a cell that the user has edited since the run
\* read it, the delivery writes the update's text over the user's value and
\* pushes one EditCell Command whose old value is the user's value, and one
\* undo from there gives the cell the user's value back.
DeliveryOverUserEditRecoverable ==
    [][(/\ op'.name = "handle_update_cell"
        /\ queue # <<>>
        /\ queue[1].kind = "update_cell"
        /\ InBounds(df, queue[1].index)
        /\ data(df, queue[1].index) \in UserTexts)
       => LET ref == queue[1].index
          IN /\ df'.cells[ref] = queue[1].new_data
             /\ pushes' = pushes + 1
             /\ index' = Len(command_list')
             /\ command_list'[index'].kind = "EditCell"
             /\ command_list'[index'].index = ref
             /\ command_list'[index'].old_value = df.cells[ref]
             /\ command_list'[index'].new_value = queue[1].new_data
             /\ undo_triggered(Mafter).df.cells[ref] = df.cells[ref]]_vars

\* C28 witness: the user typed "b" into a cell the run had read, the update
\* for the cell was delivered over it, and one undo has brought "b" back.
UserEditBackAfterUndo ==
    /\ op.name = "undo"
    /\ lastPush.kind = "EditCell"
    /\ index = lastPush.idx - 1
    /\ \E ref \in lastPush.refs :
          /\ lastPush.before[ref] = <<"b">>
          /\ df.cells[ref] = <<"b">>
          /\ command_list[lastPush.idx].old_value = <<"b">>
          /\ command_list[lastPush.idx].new_value \in {<<"<img p/u>">>, <<"<img p/v>">>}

\* C25: a delivered update whose text differs from the text of its cell
\* pushes exactly one EditCell Command for that cell and emits the change,
\* and one undo from there gives the cell the text it had before the
\* delivery.
DeliveryIsUndoableEdit ==
    [][(/\ op'.name = "handle_update_cell"
        /\ queue # <<>>
        /\ queue[1].kind = "update_cell"
        /\ InBounds(df, queue[1].index)
        /\ queue[1].new_data # data(df, queue[1].index))
       => LET ref == queue[1].index
          IN /\ pushes' = pushes + 1
             /\ index' = Len(command_list')
             /\ command_list'[index'].kind = "EditCell"
             /\ command_list'[index'].index = ref
             /\ data(df', ref) = queue[1].new_data
             /\ \E k \in 1 .. Len(emitted') : emitted'[k] = ref
             /\ data(undo_triggered(Mafter).df, ref) = data(df, ref)]_vars

\* C25 witness: an update was delivered into a cell that showed the
\* placeholder text, and after one undo the cell shows nothing.
PlaceholderGoneAfterUndo ==
    /\ op.name = "undo"
    /\ lastPush.kind = "EditCell"
    /\ index = lastPush.idx - 1
    /\ \E ref \in lastPush.refs :
          /\ lastPush.before[ref] = PLACEHOLDER
          /\ command_list[lastPush.idx].index = ref
          /\ command_list[lastPush.idx].old_value = PLACEHOLDER
          /\ data(df, ref) = EMPTY

====
